---------------------------- MODULE Spec2Model ----------------------------
(***************************************************************************)
(* Verification model of forge_markdown_stream (crate "streamdown").       *)
(*                                                                         *)
(* Part 1: the streaming output writer, src/src/writer.rs.                 *)
(*   A StreamingWriter owns the send half of an unbounded mpsc channel     *)
(*   and the JoinHandle of one tokio task (the consumer).  The consumer    *)
(*   owns the receive half and the sink (stdout).  The only state shared   *)
(*   by the two sides is the channel, so every interleaving of producer    *)
(*   operations and consumer steps is a behaviour of the program.          *)
(*                                                                         *)
(* Part 2: the driver, src/src/lib.rs (StreamdownRenderer::push, finish),  *)
(*   which cuts the pushed fragments into lines for the tokenizer.         *)
(*                                                                         *)
(* Part 3: the text measurement and wrap functions, src/src/text.rs.       *)
(*   They are pure: each has a specification that draws the arguments      *)
(*   from bounded sets and applies the function.                           *)
(*                                                                         *)
(* Each part has its own variables and specifications; a specification     *)
(* leaves the variables of the other parts at their initial values.        *)
(***************************************************************************)
EXTENDS Integers, Sequences, FiniteSets, TLC

\* Number of write() calls one behaviour makes on the writer.
MaxWrites == 3

\* The byte buffers handed to write(): empty, ASCII, a valid two-byte
\* sequence (C3 A9 = U+00E9), a lead byte cut off at the end of the buffer,
\* and a continuation byte with no lead byte.
Buffers ==
    { <<>>, <<97>>, <<97, 98>>, <<195, 169>>, <<97, 195>>, <<169>> }

\* Pacing delays in milliseconds: 0 disables pacing, 3 is Default::default().
Delays == {0, 3}

VARIABLES
    wpc,        \* producer side: "new", "open", "awaiting", "finished", "dropped"
    char_delay, \* StreamingWriter.char_delay / the task's captured `delay`
    queue,      \* entries in the channel, oldest first
    cpc,        \* consumer task: "none", "recv", "emit", "sleep", "done", "cancelled"
    cur,        \* characters of the current Write entry not yet emitted
    first_char, \* the task's `first_char` flag
    out,        \* the sink: one element per write_all call, the bytes it was given
    results,    \* the value returned by each write() call, in call order
    bufs,       \* history: the buffers of the write() calls that returned Ok
    sleeps,     \* history: number of tokio::time::sleep calls of the task
    failed,     \* history: indices of the accepted writes that met a sink error
    nrecv,      \* history: number of Write entries the task has received
    spawned,    \* history: number of tokio::spawn calls made for this writer
    lastOp,     \* history: the last producer operation that returned
    on_shutdown, \* history: what the Shutdown arm did: <<>> until it ran, then
                 \* the flush of the sink and the entries left in the channel
    \* the driver (StreamdownRenderer)
    dpc,         \* "new", "open", "finished"
    line_buffer, \* StreamdownRenderer.line_buffer
    parsed,      \* history: the lines handed to Parser::parse_line, in order
    rendered,    \* history: the events handed to render_event, in order
    fragments,   \* history: the fragments pushed, in order
    push_results, \* history: the value returned by each push() call, in call order
    \* the text functions
    fn,           \* the function applied: "none" before the call
    text,         \* argument `text` / `s`
    width,        \* argument `width`
    first_prefix, \* argument `first_prefix`
    next_prefix,  \* argument `next_prefix`
    result,       \* the value returned
    tw_words,     \* text_wrap: the words not yet placed
    tw,           \* text_wrap: lines, current_line, current_len, is_first_line
    level,        \* render_heading: argument `level`
    margin        \* render_heading: argument `margin`

\* The renderer of the demo program (tables)
VARIABLES
    table_rows, \* TermimadRenderer.table_rows
    last_event, \* history: the kind of the last event given to render_event
    written,    \* history: the lines the last render_event call wrote
    ret,        \* the value the last render_event call returned
    widths,     \* flush_table: the local `widths` of the last call, if it flushed
    taken       \* flush_table: the local `rows` of the last call, if it flushed

wvars == <<wpc, char_delay, queue, cpc, cur, first_char, out, results, bufs,
           sleeps, failed, nrecv, spawned, lastOp, on_shutdown>>

dvars == <<dpc, line_buffer, parsed, rendered, fragments, push_results>>

tvars == <<fn, text, width, first_prefix, next_prefix, result, tw_words, tw, level, margin>>

bvars == <<table_rows, last_event, written, ret, widths, taken>>

vars == <<wvars, dvars, tvars, bvars>>

----------------------------------------------------------------------------
(* Pure helpers *)

ReplacementChar == 65533

\* String::from_utf8_lossy on byte sequences of one- and two-byte forms:
\* an ASCII byte is itself, a lead byte 0xC2..0xDF followed by a
\* continuation byte 0x80..0xBF is one code point, any other byte is
\* replaced by U+FFFD.
RECURSIVE from_utf8_lossy(_)
from_utf8_lossy(b) ==
    IF b = <<>> THEN <<>>
    ELSE IF b[1] < 128 THEN <<b[1]>> \o from_utf8_lossy(Tail(b))
    ELSE IF /\ b[1] \in 194..223
            /\ Len(b) >= 2
            /\ b[2] \in 128..191
         THEN <<(b[1] - 192) * 64 + (b[2] - 128)>>
                  \o from_utf8_lossy(Tail(Tail(b)))
    ELSE <<ReplacementChar>> \o from_utf8_lossy(Tail(b))

\* char::encode_utf8 for code points below 0x10000.
encode_utf8(ch) ==
    IF ch < 128 THEN <<ch>>
    ELSE IF ch < 2048 THEN <<192 + (ch \div 64), 128 + (ch % 64)>>
    ELSE <<224 + (ch \div 4096), 128 + ((ch \div 64) % 64), 128 + (ch % 64)>>

\* io::Result<usize>: Ok(n), or Err with the error's io::ErrorKind.
Ok(n) == [kind |-> "Ok", n |-> n]
Err(k) == [kind |-> k, n |-> 0]

\* enum WriterMsg
WriteMsg(s) == [type |-> "Write", content |-> s]
ShutdownMsg == [type |-> "Shutdown"]

\* The receiver lives in the task's future: it is dropped, and the channel
\* closed, when the task has returned or has been cancelled.
RxClosed == cpc \in {"done", "cancelled"}

\* UnboundedSender::send: appends unless the receiver is gone; the callers
\* that discard the result (finish, drop) use this directly.
Send(q, m) == IF RxClosed THEN q ELSE Append(q, m)

\* Where the task is after it has taken up the characters `rest`:
\* back at recv().await when none is left, at sleep(delay).await when the
\* next character is paced, otherwise about to write the next character.
AfterChar(rest, fc) ==
    IF rest = <<>> THEN "recv"
    ELSE IF ~fc /\ char_delay # 0 THEN "sleep"
    ELSE "emit"

----------------------------------------------------------------------------
(* Initial state: no writer has been constructed yet *)

WriterInit ==
    /\ wpc = "new"
    /\ char_delay = 0
    /\ queue = <<>>
    /\ cpc = "none"
    /\ cur = <<>>
    /\ first_char = TRUE
    /\ out = <<>>
    /\ results = <<>>
    /\ bufs = <<>>
    /\ sleeps = 0
    /\ failed = {}
    /\ nrecv = 0
    /\ spawned = 0
    /\ lastOp = "none"
    /\ on_shutdown = <<>>

\* No driver has been constructed.
DriverIdle ==
    /\ dpc = "new"
    /\ line_buffer = <<>>
    /\ parsed = <<>>
    /\ rendered = <<>>
    /\ fragments = <<>>
    /\ push_results = <<>>

\* The locals of text_wrap before its loop.
tw_start ==
    [lines |-> <<>>, current_line |-> <<>>, current_len |-> 0, is_first_line |-> TRUE]

\* No text function is being applied.
TextIdle ==
    /\ fn = "none"
    /\ text = <<>>
    /\ width = 0
    /\ first_prefix = <<>>
    /\ next_prefix = <<>>
    /\ result = <<>>
    /\ tw_words = <<>>
    /\ tw = tw_start
    /\ level = 0
    /\ margin = <<>>

\* A renderer of the demo program as constructed, given no event yet.
TableIdle ==
    /\ table_rows = <<>>
    /\ last_event = "none"
    /\ written = <<>>
    /\ ret = "none"
    /\ widths = <<>>
    /\ taken = <<>>

Init == WriterInit /\ DriverIdle /\ TextIdle /\ TableIdle

----------------------------------------------------------------------------
(* Producer side *)

\* StreamingWriter::with_delay (and new, default): creates the channel and
\* spawns the consumer task, which starts at recv().await.
with_delay(delay) ==
    /\ wpc = "new"
    /\ wpc' = "open"
    /\ char_delay' = delay
    /\ queue' = <<>>
    /\ cpc' = "recv"
    /\ first_char' = TRUE
    /\ spawned' = spawned + 1
    /\ lastOp' = "with_delay"
    /\ UNCHANGED <<on_shutdown, cur, out, results, bufs, sleeps, failed, nrecv>>
    /\ UNCHANGED <<dvars, tvars, bvars>>

\* Mutant: the result of send is discarded, so a write to a closed channel
\* reports success.
write_ignores_closed(buf) ==
    /\ wpc = "open"
    /\ Len(results) < MaxWrites
    /\ queue' = Send(queue, WriteMsg(from_utf8_lossy(buf)))
    /\ results' = Append(results, Ok(Len(buf)))
    /\ bufs' = IF RxClosed THEN bufs ELSE Append(bufs, buf)
    /\ lastOp' = "write"
    /\ UNCHANGED <<on_shutdown, wpc, char_delay, cpc, cur, first_char, out, sleeps,
                   failed, nrecv, spawned>>
    /\ UNCHANGED <<dvars, tvars, bvars>>

\* Mutant: a rendezvous channel, where write waits until the consumer has
\* taken the previous entry.
write_bounded(buf) ==
    /\ wpc = "open"
    /\ Len(results) < MaxWrites
    /\ queue = <<>>
    /\ IF RxClosed
         THEN /\ results' = Append(results, Err("BrokenPipe"))
              /\ UNCHANGED <<queue, bufs>>
         ELSE /\ queue' = Append(queue, WriteMsg(from_utf8_lossy(buf)))
              /\ results' = Append(results, Ok(Len(buf)))
              /\ bufs' = Append(bufs, buf)
    /\ lastOp' = "write"
    /\ UNCHANGED <<on_shutdown, wpc, char_delay, cpc, cur, first_char, out, sleeps,
                   failed, nrecv, spawned>>
    /\ UNCHANGED <<dvars, tvars, bvars>>

\* Mutant: write passes the text straight through to the sink as well.
write_through(buf) ==
    /\ wpc = "open"
    /\ Len(results) < MaxWrites
    /\ IF RxClosed
         THEN /\ results' = Append(results, Err("BrokenPipe"))
              /\ UNCHANGED <<queue, bufs, out>>
         ELSE /\ queue' = Append(queue, WriteMsg(<<>>))
              /\ out' = out \o [i \in 1..Len(from_utf8_lossy(buf)) |->
                                  encode_utf8(from_utf8_lossy(buf)[i])]
              /\ results' = Append(results, Ok(Len(buf)))
              /\ bufs' = Append(bufs, buf)
    /\ lastOp' = "write"
    /\ UNCHANGED <<on_shutdown, wpc, char_delay, cpc, cur, first_char, sleeps,
                   failed, nrecv, spawned>>
    /\ UNCHANGED <<dvars, tvars, bvars>>

\* impl Write for StreamingWriter: write
write(buf) ==
    /\ wpc = "open"
    /\ Len(results) < MaxWrites
    /\ IF RxClosed
         THEN /\ results' = Append(results, Err("BrokenPipe"))
              /\ UNCHANGED <<queue, bufs>>
         ELSE /\ queue' = Append(queue, WriteMsg(from_utf8_lossy(buf)))
              /\ results' = Append(results, Ok(Len(buf)))
              /\ bufs' = Append(bufs, buf)
    /\ lastOp' = "write"
    /\ UNCHANGED <<on_shutdown, wpc, char_delay, cpc, cur, first_char, out, sleeps,
                   failed, nrecv, spawned>>
    /\ UNCHANGED <<dvars, tvars, bvars>>

\* Mutant: flush waits until the queue has been drained.
flush_waits ==
    /\ wpc = "open"
    /\ queue = <<>> /\ cpc = "recv"
    /\ lastOp' = "flush"
    /\ UNCHANGED <<on_shutdown, wpc, char_delay, queue, cpc, cur, first_char, out,
                   results, bufs, sleeps, failed, nrecv, spawned>>
    /\ UNCHANGED <<dvars, tvars, bvars>>

\* impl Write for StreamingWriter: flush
flush ==
    /\ wpc = "open"
    /\ lastOp' = "flush"
    /\ UNCHANGED <<on_shutdown, wpc, char_delay, queue, cpc, cur, first_char, out,
                   results, bufs, sleeps, failed, nrecv, spawned>>
    /\ UNCHANGED <<dvars, tvars, bvars>>

\* Mutant: finish awaits the task without asking it to shut down.
finish_send_no_shutdown ==
    /\ wpc = "open"
    /\ wpc' = "awaiting"
    /\ UNCHANGED <<on_shutdown, char_delay, queue, cpc, cur, first_char, out, results,
                   bufs, sleeps, failed, nrecv, spawned, lastOp>>
    /\ UNCHANGED <<dvars, tvars, bvars>>

\* StreamingWriter::finish, up to the await of the join handle.
finish_send ==
    /\ wpc = "open"
    /\ queue' = Send(queue, ShutdownMsg)
    /\ wpc' = "awaiting"
    /\ UNCHANGED <<on_shutdown, char_delay, cpc, cur, first_char, out, results, bufs,
                   sleeps, failed, nrecv, spawned, lastOp>>
    /\ UNCHANGED <<dvars, tvars, bvars>>

\* Mutant: finish does not await the join handle.
finish_join_no_await ==
    /\ wpc = "awaiting"
    /\ queue' = Send(queue, ShutdownMsg)
    /\ wpc' = "finished"
    /\ lastOp' = "finish"
    /\ UNCHANGED <<on_shutdown, char_delay, cpc, cur, first_char, out, results, bufs,
                   sleeps, failed, nrecv, spawned>>
    /\ UNCHANGED <<dvars, tvars, bvars>>

\* StreamingWriter::finish, from the completion of the join handle to the
\* return: `self` goes out of scope, so Drop::drop sends a second Shutdown.
finish_join ==
    /\ wpc = "awaiting"
    /\ RxClosed
    /\ queue' = Send(queue, ShutdownMsg)
    /\ wpc' = "finished"
    /\ lastOp' = "finish"
    /\ UNCHANGED <<on_shutdown, char_delay, cpc, cur, first_char, out, results, bufs,
                   sleeps, failed, nrecv, spawned>>
    /\ UNCHANGED <<dvars, tvars, bvars>>

\* Mutant: drop waits until the queue has been drained.
drop_waits ==
    /\ wpc = "open"
    /\ queue = <<>> /\ cpc = "recv"
    /\ queue' = Send(queue, ShutdownMsg)
    /\ wpc' = "dropped"
    /\ lastOp' = "drop"
    /\ UNCHANGED <<on_shutdown, char_delay, cpc, cur, first_char, out, results, bufs,
                   sleeps, failed, nrecv, spawned>>
    /\ UNCHANGED <<dvars, tvars, bvars>>

\* impl Drop for StreamingWriter, for a writer that was not finished.
drop ==
    /\ wpc = "open"
    /\ queue' = Send(queue, ShutdownMsg)
    /\ wpc' = "dropped"
    /\ lastOp' = "drop"
    /\ UNCHANGED <<on_shutdown, char_delay, cpc, cur, first_char, out, results, bufs,
                   sleeps, failed, nrecv, spawned>>
    /\ UNCHANGED <<dvars, tvars, bvars>>

----------------------------------------------------------------------------
(* Consumer task *)

\* Mutant: `first_char` is declared inside the loop, so it is true again
\* for every entry.
ConsumerRecvResetsFirst ==
    /\ cpc = "recv"
    /\ queue # <<>>
    /\ LET msg == Head(queue) IN
       IF msg.type = "Write"
         THEN /\ queue' = Tail(queue)
              /\ cur' = msg.content
              /\ nrecv' = nrecv + 1
              /\ cpc' = AfterChar(msg.content, TRUE)
              /\ sleeps' = sleeps
         ELSE /\ queue' = <<>>
              /\ cpc' = "done"
              /\ UNCHANGED <<cur, nrecv, sleeps>>
    /\ on_shutdown' = IF Head(queue).type = "Write" THEN on_shutdown
                      ELSE <<[flushed |-> TRUE, behind |-> Tail(queue)]>>
    /\ UNCHANGED <<wpc, char_delay, first_char, out, results, bufs, failed,
                   spawned, lastOp>>
    /\ UNCHANGED <<dvars, tvars, bvars>>

\* Mutant: the Shutdown arm flushes but does not break out of the loop.
ConsumerRecvNoBreak ==
    /\ cpc = "recv"
    /\ queue # <<>>
    /\ LET msg == Head(queue) IN
       IF msg.type = "Write"
         THEN /\ queue' = Tail(queue)
              /\ cur' = msg.content
              /\ nrecv' = nrecv + 1
              /\ cpc' = AfterChar(msg.content, first_char)
              /\ sleeps' = IF AfterChar(msg.content, first_char) = "sleep"
                             THEN sleeps + 1 ELSE sleeps
         ELSE /\ queue' = Tail(queue)
              /\ UNCHANGED <<cpc, cur, nrecv, sleeps>>
    /\ on_shutdown' = IF Head(queue).type = "Write" THEN on_shutdown
                      ELSE <<[flushed |-> TRUE, behind |-> Tail(queue)]>>
    /\ UNCHANGED <<wpc, char_delay, first_char, out, results, bufs, failed,
                   spawned, lastOp>>
    /\ UNCHANGED <<dvars, tvars, bvars>>

\* receiver.recv().await returning Some(msg), and the match on msg up to
\* the next await or sink call.
ConsumerRecv ==
    /\ cpc = "recv"
    /\ queue # <<>>
    /\ LET msg == Head(queue) IN
       IF msg.type = "Write"
         THEN /\ queue' = Tail(queue)
              /\ cur' = msg.content
              /\ nrecv' = nrecv + 1
              /\ cpc' = AfterChar(msg.content, first_char)
              /\ sleeps' = IF AfterChar(msg.content, first_char) = "sleep"
                             THEN sleeps + 1 ELSE sleeps
         ELSE \* Shutdown: flush (result discarded), break; the task returns
              \* and the receiver is dropped with whatever is still queued.
              /\ queue' = <<>>
              /\ cpc' = "done"
              /\ UNCHANGED <<cur, nrecv, sleeps>>
    /\ on_shutdown' = IF Head(queue).type = "Write" THEN on_shutdown
                      ELSE <<[flushed |-> TRUE, behind |-> Tail(queue)]>>
    /\ UNCHANGED <<wpc, char_delay, first_char, out, results, bufs, failed,
                   spawned, lastOp>>
    /\ UNCHANGED <<dvars, tvars, bvars>>

\* Mutant: a sink error is propagated with `?`, which ends the task.
EmitCharStopsOnError(sinkOk) ==
    /\ cur # <<>>
    /\ first_char' = FALSE
    /\ out' = Append(out, encode_utf8(Head(cur)))
    /\ failed' = IF sinkOk THEN failed ELSE failed \cup {nrecv}
    /\ cur' = Tail(cur)
    /\ cpc' = IF sinkOk THEN AfterChar(Tail(cur), FALSE) ELSE "done"
    /\ sleeps' = IF sinkOk /\ AfterChar(Tail(cur), FALSE) = "sleep"
                   THEN sleeps + 1 ELSE sleeps
    /\ UNCHANGED <<on_shutdown, wpc, char_delay, queue, results, bufs, nrecv, spawned,
                   lastOp>>
    /\ UNCHANGED <<dvars, tvars, bvars>>

\* Mutant: a character whose write failed is written again.
EmitCharRetry(sinkOk) ==
    /\ cur # <<>>
    /\ first_char' = FALSE
    /\ out' = Append(out, encode_utf8(Head(cur)))
    /\ failed' = IF sinkOk THEN failed ELSE failed \cup {nrecv}
    /\ cur' = IF sinkOk THEN Tail(cur) ELSE cur
    /\ cpc' = AfterChar(cur', FALSE)
    /\ sleeps' = IF AfterChar(cur', FALSE) = "sleep"
                   THEN sleeps + 1 ELSE sleeps
    /\ UNCHANGED <<on_shutdown, wpc, char_delay, queue, results, bufs, nrecv, spawned,
                   lastOp>>
    /\ UNCHANGED <<dvars, tvars, bvars>>

\* One iteration of `for ch in content.chars()` from `first_char = false`
\* on: the character is encoded and handed to write_all and flush, whose
\* results are discarded (sinkOk = FALSE: one of them returned an error).
EmitChar(sinkOk) ==
    /\ cur # <<>>
    /\ first_char' = FALSE
    /\ out' = Append(out, encode_utf8(Head(cur)))
    /\ failed' = IF sinkOk THEN failed ELSE failed \cup {nrecv}
    /\ cur' = Tail(cur)
    /\ cpc' = AfterChar(Tail(cur), FALSE)
    /\ sleeps' = IF AfterChar(Tail(cur), FALSE) = "sleep"
                   THEN sleeps + 1 ELSE sleeps
    /\ UNCHANGED <<on_shutdown, wpc, char_delay, queue, results, bufs, nrecv, spawned,
                   lastOp>>
    /\ UNCHANGED <<dvars, tvars, bvars>>

\* An unpaced character.
ConsumerEmit ==
    /\ cpc = "emit"
    /\ \E sinkOk \in BOOLEAN : EmitChar(sinkOk)

\* tokio::time::sleep(delay).await completes and the character is written.
ConsumerWake ==
    /\ cpc = "sleep"
    /\ \E sinkOk \in BOOLEAN : EmitChar(sinkOk)

----------------------------------------------------------------------------
(* Specifications *)

Next ==
    \/ \E d \in Delays : with_delay(d)
    \/ \E b \in Buffers : write(b)
    \/ flush
    \/ finish_send
    \/ finish_join
    \/ drop
    \/ ConsumerRecv
    \/ ConsumerEmit
    \/ ConsumerWake

\* The writer used inside a runtime that outlives it.
Spec == Init /\ [][Next]_vars

\* The spawned task belongs to the tokio runtime: when the runtime is shut
\* down while the task is parked at an await (recv or sleep), the task's
\* future is dropped, and the receiver and the queued entries with it.
runtime_shutdown ==
    /\ cpc \in {"recv", "sleep"}
    /\ cpc' = "cancelled"
    /\ queue' = <<>>
    /\ cur' = <<>>
    /\ UNCHANGED <<on_shutdown, wpc, char_delay, first_char, out, results, bufs, sleeps,
                   failed, nrecv, spawned, lastOp>>
    /\ UNCHANGED <<dvars, tvars, bvars>>

NextCancel == Next \/ runtime_shutdown

\* The writer used across a shutdown of the runtime that runs its task.
SpecCancel == Init /\ [][NextCancel]_vars

\* finish() suspended at `handle.await` and its future dropped by the
\* caller (a timeout, a select!): `self` is dropped with it, so Drop::drop
\* sends a second Shutdown, and the join handle is dropped, which detaches
\* the task.
finish_cancelled ==
    /\ wpc = "awaiting"
    /\ queue' = Send(queue, ShutdownMsg)
    /\ wpc' = "dropped"
    /\ lastOp' = "finish_cancelled"
    /\ UNCHANGED <<on_shutdown, char_delay, cpc, cur, first_char, out, results,
                   bufs, sleeps, failed, nrecv, spawned>>
    /\ UNCHANGED <<dvars, tvars, bvars>>

NextAbandon == Next \/ finish_cancelled

\* The writer whose caller may abandon finish() while it waits for the task.
SpecAbandon == Init /\ [][NextAbandon]_vars

\* The runtime polls a task that can make progress, timers fire, and the
\* caller awaiting finish() is woken when the join handle completes.
FairSpec ==
    /\ Spec
    /\ WF_vars(ConsumerRecv)
    /\ WF_vars(ConsumerEmit)
    /\ WF_vars(ConsumerWake)
    /\ WF_vars(finish_join)

----------------------------------------------------------------------------
(* Vocabulary of the properties *)

RECURSIVE Flatten(_)
Flatten(ss) == IF ss = <<>> THEN <<>> ELSE Head(ss) \o Flatten(Tail(ss))

\* The characters of the accepted buffers, in the order of the write calls.
RECURSIVE CharsOf(_)
CharsOf(bs) ==
    IF bs = <<>> THEN <<>> ELSE from_utf8_lossy(Head(bs)) \o CharsOf(Tail(bs))

\* What the sink must have been handed once everything accepted is emitted.
AcceptedOut ==
    LET cs == CharsOf(bufs) IN [i \in 1..Len(cs) |-> encode_utf8(cs[i])]

IsPrefix(s, t) == Len(s) <= Len(t) /\ s = SubSeq(t, 1, Len(s))

\* A buffer that is well-formed UTF-8 (it decodes without replacement).
WellFormed(b) ==
    \A i \in 1..Len(from_utf8_lossy(b)) : from_utf8_lossy(b)[i] # ReplacementChar

LastResult == results[Len(results)]

----------------------------------------------------------------------------
(* Properties of the streaming writer *)

\* C1: when finish() has returned, the sink has been handed every character
\* of every accepted write() buffer exactly once, in write-call order (and
\* for well-formed buffers exactly the bytes that were written), whatever
\* the delay and the number of writes.
C1_FinishDrains ==
    wpc = "finished" =>
        /\ out = AcceptedOut
        /\ (\A i \in 1..Len(bufs) : WellFormed(bufs[i]))
              => Flatten(out) = Flatten(bufs)

\* C1 witness: finish() has returned after two non-empty writes on a paced
\* writer, and the consumer slept between characters.
C1_Witness ==
    /\ wpc = "finished"
    /\ char_delay # 0
    /\ Len(bufs) = 2
    /\ bufs[1] # <<>> /\ bufs[2] # <<>>
    /\ sleeps >= 2

\* C2: at every moment what has been emitted is a prefix of the characters
\* of the accepted buffers in enqueue order.
C2_OutputIsPrefix == IsPrefix(out, AcceptedOut)

\* C2 witness: the consumer is in the middle of the second of two entries,
\* after a sink error on the first.
C2_Witness ==
    /\ nrecv = 2
    /\ cur # <<>>
    /\ Len(out) >= 2
    /\ 1 \in failed

\* C3: while the consumer is alive, write() can always be taken, whatever
\* the consumer does and however long the queue is, and the step itself
\* appends exactly one content entry, returns Ok(len) and moves nothing on
\* the consumer side.
C3_WriteNeverWaits ==
    /\ [](wpc = "open" /\ ~RxClosed /\ Len(results) < MaxWrites
            => \A b \in Buffers : ENABLED write(b))
    /\ [][(Len(results') = Len(results) + 1 /\ ~RxClosed) =>
            /\ Len(queue') = Len(queue) + 1
            /\ SubSeq(queue', 1, Len(queue)) = queue
            /\ queue'[Len(queue')].type = "Write"
            /\ \E b \in Buffers : results'[Len(results')] = Ok(Len(b))
            /\ bufs' # bufs
            /\ <<cpc, cur, first_char, out, sleeps>>' =
               <<cpc, cur, first_char, out, sleeps>>]_vars

\* C3 witness: a write has returned Ok while the consumer was suspended in
\* its pacing sleep with another entry still queued.
C3_Witness ==
    /\ lastOp = "write"
    /\ LastResult.kind = "Ok"
    /\ cpc = "sleep"
    /\ Len(queue) >= 1
    /\ Len(results) = 2

\* C4: a write() made after the consumer has terminated returns BrokenPipe;
\* it never returns Ok and nothing is taken into the queue.
C4_WriteAfterTerminationFails ==
    [][(Len(results') = Len(results) + 1 /\ RxClosed) =>
        /\ results'[Len(results')] = Err("BrokenPipe")
        /\ queue' = queue
        /\ bufs' = bufs]_vars

\* C4 witness: the consumer is gone and a write made after that has
\* returned BrokenPipe, after an earlier write had been accepted.
C4_Witness ==
    /\ RxClosed
    /\ Len(results) = 2
    /\ results[1].kind = "Ok"
    /\ results[2] = Err("BrokenPipe")


\* C5 (as stated): a sink failure met while emitting the content of a write
\* is reported, as an error, to the caller of that write.
C5_SinkFailurePropagated ==
    \A i \in failed : results[i].kind # "Ok"

\* C5 (amended): a sink failure is discarded by the consumer and reported
\* to no caller: the write that enqueued the content has returned Ok(len),
\* the failing step changes no result, and the consumer goes on with the
\* next character.
C5_SinkFailureDiscarded ==
    /\ [](\A i \in failed : results[i] = Ok(Len(bufs[i])))
    /\ [][failed' # failed =>
            /\ results' = results
            /\ ~RxClosed'
            /\ cur' = Tail(cur)
            /\ out' = Append(out, encode_utf8(Head(cur)))]_vars

\* C5 witness: the sink failed on the first write's content, the consumer
\* nevertheless emitted everything, and every write returned Ok.
C5_Witness ==
    /\ failed = {1}
    /\ Len(results) = 2
    /\ \A i \in 1..Len(results) : results[i].kind = "Ok"
    /\ Len(out) >= 3
    /\ out = AcceptedOut

\* C6: once finish() has been called, under fair scheduling everything
\* queued is eventually emitted, the consumer terminates and finish()
\* returns.
C6_FinishTerminates ==
    (wpc = "awaiting") ~> (wpc = "finished" /\ cpc = "done" /\ out = AcceptedOut)

\* C6 witness: finish() has been called while two content entries and the
\* shutdown entry were all still queued.
C6_Witness ==
    /\ wpc = "awaiting"
    /\ cpc = "recv"
    /\ Len(queue) = 3
    /\ queue[1].content # <<>>
    /\ out = <<>>

\* C7: write, flush, drop and the send of finish can be taken in every
\* state of an open writer, whatever the consumer is doing; only the join
\* in finish waits, and it waits until the consumer has terminated.
C7_OnlyFinishWaits ==
    /\ wpc = "open" =>
          /\ ENABLED flush
          /\ ENABLED drop
          /\ ENABLED finish_send
          /\ Len(results) < MaxWrites => \A b \in Buffers : ENABLED write(b)
    /\ wpc = "awaiting" => (ENABLED finish_join <=> RxClosed)

\* C7 witness: flush has returned while accepted content is still
\* unemitted.
C7_Witness ==
    /\ lastOp = "flush"
    /\ wpc = "open"
    /\ Len(out) >= 1
    /\ Len(out) < Len(AcceptedOut)

\* C8: dropping an unfinished writer can be done in every state of an open
\* writer; the step appends one shutdown entry and moves nothing on the
\* consumer side, so what was accepted need not have been emitted.
C8_DropDoesNotWait ==
    /\ [](wpc = "open" => ENABLED drop)
    /\ [][wpc' = "dropped" /\ wpc = "open" =>
            /\ queue' = Append(queue, ShutdownMsg)
            /\ <<cpc, cur, first_char, out, sleeps, nrecv>>' =
               <<cpc, cur, first_char, out, sleeps, nrecv>>]_vars

\* C8 witness: drop has returned while the consumer sleeps in the middle
\* of the first entry and a second entry is still queued.
C8_Witness ==
    /\ wpc = "dropped"
    /\ lastOp = "drop"
    /\ cpc = "sleep"
    /\ Len(queue) = 2
    /\ Len(out) < Len(AcceptedOut)

Max(a, b) == IF a >= b THEN a ELSE b

\* C9: the consumer has slept once for every character emitted or about to
\* be emitted, except the very first character of the writer; an unpaced
\* emission happens only for that first character or with a zero delay,
\* and with a zero delay the consumer never sleeps.
C9_PacingBeforeAllButFirst ==
    /\ char_delay = 0 => sleeps = 0 /\ cpc # "sleep"
    /\ char_delay # 0 =>
          /\ sleeps = IF cpc = "sleep" THEN Len(out) ELSE Max(Len(out) - 1, 0)
          /\ cpc = "emit" => out = <<>>

\* C9 witness: on a paced writer the first entry held one character and
\* the consumer sleeps before the first character of the second entry.
C9_Witness ==
    /\ char_delay # 0
    /\ nrecv = 2
    /\ Len(out) = 1
    /\ cur = from_utf8_lossy(bufs[2])
    /\ cpc = "sleep"

\* The lifecycle state of the writer.
ShutdownRequested == \E i \in 1..Len(queue) : queue[i].type = "Shutdown"

Lifecycle ==
    IF cpc = "none" THEN "Idle"
    ELSE IF RxClosed THEN "Stopped"
    ELSE IF ShutdownRequested THEN "Draining"
    ELSE "Running"

Rank(l) == CASE l = "Idle" -> 0
             [] l = "Running" -> 1
             [] l = "Draining" -> 2
             [] l = "Stopped" -> 3

\* C10: the lifecycle never moves back, and at most one consumer task is
\* ever spawned for the writer: none while Idle, one from then on.
C10_LifecycleForward ==
    /\ [][Rank(Lifecycle') >= Rank(Lifecycle)]_vars
    /\ [](spawned = IF Lifecycle = "Idle" THEN 0 ELSE 1)

\* C10 witness: a writer that went through Running and Draining is Stopped
\* with output emitted.
C10_Witness ==
    /\ Lifecycle = "Stopped"
    /\ wpc = "finished"
    /\ spawned = 1
    /\ Len(out) >= 2

\* C11: the sink changes only in a step of the consumer, which takes one
\* character of its current entry; a step of the producer (write, flush,
\* the send of finish, the return of finish, drop) leaves the sink and
\* everything the consumer owns as it was, and changes the channel only by
\* appending to it.
C11_OnlyConsumerTouchesSink ==
    /\ [][out' # out =>
            /\ cpc \in {"emit", "sleep"}
            /\ out' = Append(out, encode_utf8(Head(cur)))
            /\ cur' = Tail(cur)
            /\ <<wpc, results, lastOp, queue>>' = <<wpc, results, lastOp, queue>>]_vars
    /\ [][(wpc # "new" /\ (wpc' # wpc \/ results' # results \/ lastOp' # lastOp)) =>
            /\ <<out, cpc, cur, first_char, sleeps, nrecv>>' =
               <<out, cpc, cur, first_char, sleeps, nrecv>>
            /\ IsPrefix(queue, queue')]_vars

\* C11 witness: write, flush and drop have all returned on a writer whose
\* consumer has emitted part of the accepted content.
C11_Witness ==
    /\ wpc = "dropped"
    /\ Len(results) = 2
    /\ Len(out) = 1
    /\ cpc = "emit"
    /\ Len(queue) = 2

----------------------------------------------------------------------------
(* Part 2: the driver, StreamdownRenderer (src/src/lib.rs) *)

\* Number of push() calls of one behaviour, and the longest fragment pushed.
MaxPushes == 3
MaxFragLen == 2

\* '\n', and a character that is not a newline.
NL == 10
DriverChars == {97, NL}

\* The strings over an alphabet of at most n characters.
StringsUpTo(alphabet, n) == UNION {[1..k -> alphabet] : k \in 0..n}

Fragments == StringsUpTo(DriverChars, MaxFragLen)

\* self.line_buffer.find('\n'): the index of the first newline, 0 for None.
find_newline(s) ==
    IF \E i \in 1..Len(s) : s[i] = NL
      THEN CHOOSE i \in 1..Len(s) :
               s[i] = NL /\ \A j \in 1..(i - 1) : s[j] # NL
      ELSE 0

\* Parser::parse_line of the external tokenizer, which is opaque: the n-th
\* call yields an ordered list of events that belong to that call, here one
\* per character of the line (none for an empty line).
parse_line(n, line) == [k \in 1..Len(line) |-> [call |-> n, k |-> k]]

\* Parser::finalize of the external tokenizer: one closing event.
finalize == << [call |-> 0, k |-> 1] >>

\* Renderer::render_event applied to each event of a list in turn: the
\* events reach the block renderers in the order of the list.
render_events(rs, events) == rs \o events

\* Mutant: only the first complete line of the buffer is taken (`if let`
\* in place of `while let`).
RECURSIVE push_loop_once(_, _, _)
push_loop_once(buf, ps, rs) ==
    LET pos == find_newline(buf) IN
    IF pos = 0 THEN [buf |-> buf, parsed |-> ps, rendered |-> rs]
    ELSE LET line == SubSeq(buf, 1, pos - 1) IN
         [buf |-> SubSeq(buf, pos + 1, Len(buf)),
          parsed |-> Append(ps, line),
          rendered |-> render_events(rs, parse_line(Len(ps) + 1, line))]

\* The loop of push: while the buffer holds a newline, the text before it
\* is parsed, its events are rendered, and the buffer keeps what follows.
RECURSIVE push_loop(_, _, _)
push_loop(buf, ps, rs) ==
    LET pos == find_newline(buf) IN
    IF pos = 0 THEN [buf |-> buf, parsed |-> ps, rendered |-> rs]
    ELSE LET line == SubSeq(buf, 1, pos - 1) IN
         push_loop(SubSeq(buf, pos + 1, Len(buf)),
                   Append(ps, line),
                   render_events(rs, parse_line(Len(ps) + 1, line)))

\* StreamdownRenderer::push
push(token) ==
    /\ dpc = "open"
    /\ Len(fragments) < MaxPushes
    /\ LET r == push_loop(line_buffer \o token, parsed, rendered) IN
       /\ line_buffer' = r.buf
       /\ parsed' = r.parsed
       /\ rendered' = r.rendered
    /\ fragments' = Append(fragments, token)
    /\ push_results' = Append(push_results, "Ok")
    /\ UNCHANGED <<dpc, wvars, tvars, bvars>>

\* Mutant: the closing events of the tokenizer are rendered before the
\* events of the trailing fragment.
finish_finalize_first ==
    /\ dpc = "open"
    /\ IF line_buffer # <<>>
         THEN /\ parsed' = Append(parsed, line_buffer)
              /\ rendered' = render_events(render_events(rendered, finalize),
                                  parse_line(Len(parsed) + 1, line_buffer))
         ELSE /\ parsed' = parsed
              /\ rendered' = render_events(rendered, finalize)
    /\ queue' = Send(queue, ShutdownMsg)
    /\ wpc' = "awaiting"
    /\ dpc' = "finishing"
    /\ UNCHANGED <<line_buffer, fragments, push_results, tvars, bvars>>
    /\ UNCHANGED <<char_delay, cpc, cur, first_char, out, results, bufs,
                   sleeps, failed, nrecv, spawned, lastOp, on_shutdown>>

\* StreamdownRenderer::finish up to its await: the trailing fragment is
\* parsed and rendered, then the closing events, then the writer is taken
\* out of the renderer and StreamingWriter::finish sends Shutdown.
finish ==
    /\ dpc = "open"
    /\ IF line_buffer # <<>>
         THEN /\ parsed' = Append(parsed, line_buffer)
              /\ rendered' = render_events(
                                  render_events(rendered,
                                      parse_line(Len(parsed) + 1, line_buffer)),
                                  finalize)
         ELSE /\ parsed' = parsed
              /\ rendered' = render_events(rendered, finalize)
    /\ queue' = Send(queue, ShutdownMsg)
    /\ wpc' = "awaiting"
    /\ dpc' = "finishing"
    /\ UNCHANGED <<line_buffer, fragments, push_results, tvars, bvars>>
    /\ UNCHANGED <<char_delay, cpc, cur, first_char, out, results, bufs,
                   sleeps, failed, nrecv, spawned, lastOp, on_shutdown>>

\* The state after StreamdownRenderer::with_delay: an empty line buffer and
\* a StreamingWriter whose consumer waits at recv().
DriverInit ==
    /\ dpc = "open"
    /\ line_buffer = <<>>
    /\ parsed = <<>>
    /\ rendered = <<>>
    /\ fragments = <<>>
    /\ push_results = <<>>
    /\ wpc = "open"
    /\ char_delay \in Delays
    /\ queue = <<>>
    /\ cpc = "recv"
    /\ cur = <<>>
    /\ first_char = TRUE
    /\ out = <<>>
    /\ results = <<>>
    /\ bufs = <<>>
    /\ sleeps = 0
    /\ failed = {}
    /\ nrecv = 0
    /\ spawned = 1
    /\ lastOp = "with_delay"
    /\ on_shutdown = <<>>
    /\ TextIdle
    /\ TableIdle

\* The driver with its writer: the consumer takes the Shutdown and the
\* await in finish completes.
DriverNext ==
    \/ \E token \in Fragments : push(token)
    \/ finish
    \/ ConsumerRecv
    \/ finish_join

DriverSpec == DriverInit /\ [][DriverNext]_vars

----------------------------------------------------------------------------
(* Properties of the driver *)

\* The positions of the newlines of s, and its k-th newline.
NlPos(s) == {i \in 1..Len(s) : s[i] = NL}
NthNl(s, k) == CHOOSE p \in NlPos(s) : Cardinality({q \in NlPos(s) : q <= p}) = k

\* The newline-terminated lines of s without their newlines, and what
\* follows the last newline.
CompleteLines(s) ==
    [k \in 1..Cardinality(NlPos(s)) |->
        SubSeq(s, (IF k = 1 THEN 0 ELSE NthNl(s, k - 1)) + 1, NthNl(s, k) - 1)]

Remainder(s) ==
    IF NlPos(s) = {} THEN s
    ELSE SubSeq(s, NthNl(s, Cardinality(NlPos(s))) + 1, Len(s))

ExpectedEvents(ps) == Flatten([n \in 1..Len(ps) |-> parse_line(n, ps[n])])

----------------------------------------------------------------------------
(* Part 3: text measurement and wrapping (src/src/text.rs) *)

\* Characters, as code points.
ESC == 27
LBracket == 91
RBracket == 93
Backslash == 92
Space == 32
Tab == 9
LowerM == 109
UpperK == 75
UpperH == 72
UpperJ == 74
LetterA == 97
WideChar == 20320
CombiningAcute == 769

\* UnicodeWidthChar::width on the characters used here: None (-1) for a
\* control character, Some(0) for a combining mark, Some(2) for a CJK
\* ideograph, Some(1) otherwise.
char_width(c) ==
    IF c = 0 THEN 0
    ELSE IF c < 32 \/ c \in 127..159 THEN -1
    ELSE IF c \in 768..879 THEN 0
    ELSE IF c \in 19968..40959 THEN 2
    ELSE 1

\* Option::unwrap_or(0)
unwrap_or_0(w) == IF w < 0 THEN 0 ELSE w

\* char::is_whitespace (the Unicode White_Space property).
is_whitespace(c) ==
    \/ c \in 9..13
    \/ c \in {32, 133, 160, 5760, 8232, 8233, 8239, 8287, 12288}
    \/ c \in 8192..8202

\* The locals of visible_length before the loop.
vl_start == [len |-> 0, in_csi |-> FALSE, in_osc |-> FALSE, prev_was_esc |-> FALSE]

\* Mutant: every counted character counts as one column.
vl_step_counts_chars(st, c) ==
    IF st.prev_was_esc THEN
        IF c = LBracket THEN [st EXCEPT !.prev_was_esc = FALSE, !.in_csi = TRUE]
        ELSE IF c = RBracket THEN [st EXCEPT !.prev_was_esc = FALSE, !.in_osc = TRUE]
        ELSE IF c = Backslash /\ st.in_osc
             THEN [st EXCEPT !.prev_was_esc = FALSE, !.in_osc = FALSE]
        ELSE [st EXCEPT !.prev_was_esc = FALSE, !.len = st.len + 1]
    ELSE IF c = ESC THEN [st EXCEPT !.prev_was_esc = TRUE]
    ELSE IF st.in_csi THEN
        IF c \in {LowerM, UpperK, UpperH, UpperJ}
          THEN [st EXCEPT !.in_csi = FALSE] ELSE st
    ELSE IF st.in_osc THEN st
    ELSE [st EXCEPT !.len = st.len + 1]

\* Mutant: an ESC without a recognized introducer ends the sequence the
\* scanner is in.
vl_step_fallback_resets(st, c) ==
    IF st.prev_was_esc THEN
        IF c = LBracket THEN [st EXCEPT !.prev_was_esc = FALSE, !.in_csi = TRUE]
        ELSE IF c = RBracket THEN [st EXCEPT !.prev_was_esc = FALSE, !.in_osc = TRUE]
        ELSE IF c = Backslash /\ st.in_osc
             THEN [st EXCEPT !.prev_was_esc = FALSE, !.in_osc = FALSE]
        ELSE [st EXCEPT !.prev_was_esc = FALSE, !.in_csi = FALSE, !.in_osc = FALSE,
                        !.len = st.len + unwrap_or_0(char_width(c))]
    ELSE IF c = ESC THEN [st EXCEPT !.prev_was_esc = TRUE]
    ELSE IF st.in_csi THEN
        IF c \in {LowerM, UpperK, UpperH, UpperJ}
          THEN [st EXCEPT !.in_csi = FALSE] ELSE st
    ELSE IF st.in_osc THEN st
    ELSE [st EXCEPT !.len = st.len + unwrap_or_0(char_width(c))]

\* One iteration of the loop of visible_length on the character c.
vl_step(st, c) ==
    IF st.prev_was_esc THEN
        IF c = LBracket THEN [st EXCEPT !.prev_was_esc = FALSE, !.in_csi = TRUE]
        ELSE IF c = RBracket THEN [st EXCEPT !.prev_was_esc = FALSE, !.in_osc = TRUE]
        ELSE IF c = Backslash /\ st.in_osc
             THEN [st EXCEPT !.prev_was_esc = FALSE, !.in_osc = FALSE]
        ELSE [st EXCEPT !.prev_was_esc = FALSE,
                        !.len = st.len + unwrap_or_0(char_width(c))]
    ELSE IF c = ESC THEN [st EXCEPT !.prev_was_esc = TRUE]
    ELSE IF st.in_csi THEN
        IF c \in {LowerM, UpperK, UpperH, UpperJ}
          THEN [st EXCEPT !.in_csi = FALSE] ELSE st
    ELSE IF st.in_osc THEN st
    ELSE [st EXCEPT !.len = st.len + unwrap_or_0(char_width(c))]

\* The locals of visible_length after the loop over s.
RECURSIVE vl_scan(_, _)
vl_scan(st, s) == IF s = <<>> THEN st ELSE vl_scan(vl_step(st, Head(s)), Tail(s))

\* visible_length
visible_length(s) == vl_scan(vl_start, s).len

\* Strings measured: escape introducers and terminators, a letter, a wide
\* character, a combining mark and a control character.
MaxVlLen == 5
VlChars == {ESC, LBracket, RBracket, Backslash, LowerM, LetterA, WideChar,
            CombiningAcute, Tab}

VlInit ==
    /\ WriterInit
    /\ DriverIdle
    /\ TableIdle
    /\ fn = "none"
    /\ text \in StringsUpTo(VlChars, MaxVlLen)
    /\ width = 0
    /\ first_prefix = <<>>
    /\ next_prefix = <<>>
    /\ result = <<>>
    /\ tw_words = <<>>
    /\ tw = tw_start
    /\ level = 0
    /\ margin = <<>>

\* A call of visible_length(text).
call_visible_length ==
    /\ fn = "none"
    /\ fn' = "visible_length"
    /\ result' = visible_length(text)
    /\ UNCHANGED <<text, width, first_prefix, next_prefix, tw_words, tw, level, margin, wvars, dvars, bvars>>

VlNext == call_visible_length

VlSpec == VlInit /\ [][VlNext]_vars

----------------------------------------------------------------------------
(* Properties of visible_length *)

HasChar(s, c) == \E i \in 1..Len(s) : s[i] = c

\* The display width of a character: 2 for a wide one, 0 for a combining
\* mark or a character of undefined width, 1 otherwise.
DisplayWidth(c) ==
    IF c = WideChar THEN 2
    ELSE IF c \in {CombiningAcute, Tab, ESC} THEN 0
    ELSE 1

RECURSIVE SumWidths(_)
SumWidths(s) == IF s = <<>> THEN 0 ELSE DisplayWidth(Head(s)) + SumWidths(Tail(s))

\* C14: for a string without ESC, visible_length is the sum of the display
\* widths of its characters.
C14_PlainLengthIsSumOfWidths ==
    (fn = "visible_length" /\ ~HasChar(text, ESC)) => result = SumWidths(text)

\* C14 witness: a measured string without ESC that holds a letter, a wide
\* character, a combining mark and a control character.
C14_Witness ==
    /\ fn = "visible_length"
    /\ text = <<LetterA, WideChar, CombiningAcute, Tab, LBracket>>
    /\ result = 4

\* The index of the first terminator of a CSI sequence opened at s[1..2],
\* and of the ESC of the first ESC \ after an OSC opened at s[1..2]; 0 when
\* there is none.
CsiEnd(s) ==
    LET js == {j \in 3..Len(s) : s[j] \in {LowerM, UpperK, UpperH, UpperJ}} IN
    IF js = {} THEN 0 ELSE CHOOSE j \in js : \A k \in js : j <= k

OscEnd(s) ==
    LET js == {j \in 3..(Len(s) - 1) : s[j] = ESC /\ s[j + 1] = Backslash} IN
    IF js = {} THEN 0 ELSE CHOOSE j \in js : \A k \in js : j <= k

\* s without its control sequences: scanning from the left, ESC [ up to
\* the first of m K H J, and ESC ] up to the first ESC \, are left out.
RECURSIVE StripSequences(_)
StripSequences(s) ==
    IF s = <<>> THEN <<>>
    ELSE IF Len(s) >= 2 /\ s[1] = ESC /\ s[2] = LBracket /\ CsiEnd(s) # 0
         THEN StripSequences(SubSeq(s, CsiEnd(s) + 1, Len(s)))
    ELSE IF Len(s) >= 2 /\ s[1] = ESC /\ s[2] = RBracket /\ OscEnd(s) # 0
         THEN StripSequences(SubSeq(s, OscEnd(s) + 2, Len(s)))
    ELSE <<Head(s)>> \o StripSequences(Tail(s))

\* C15 (as stated): removing the control sequences of a string does not
\* change its visible_length.
C15_StrippingKeepsLength ==
    fn = "visible_length" => visible_length(StripSequences(text)) = result

----------------------------------------------------------------------------
(* simple_wrap *)

\* str::split_whitespace: the maximal runs of non-whitespace characters.
RECURSIVE split_ws_from(_, _, _)
split_ws_from(s, words, current) ==
    IF s = <<>> THEN (IF current = <<>> THEN words ELSE Append(words, current))
    ELSE IF is_whitespace(Head(s))
         THEN split_ws_from(Tail(s),
                  IF current = <<>> THEN words ELSE Append(words, current), <<>>)
    ELSE split_ws_from(Tail(s), words, Append(current, Head(s)))

split_whitespace(s) == split_ws_from(s, <<>>, <<>>)

\* Mutant: the separating space is not counted when a word is added.
sw_step_forgets_space(st, word, w) ==
    IF st.current = <<>> THEN [st EXCEPT !.current = word]
    ELSE IF Len(st.current) + Len(word) <= w
         THEN [st EXCEPT !.current = st.current \o <<Space>> \o word]
    ELSE [lines |-> Append(st.lines, st.current), current |-> word]

\* One iteration of the loop of simple_wrap on a word.
sw_step(st, word, w) ==
    IF st.current = <<>> THEN [st EXCEPT !.current = word]
    ELSE IF Len(st.current) + 1 + Len(word) <= w
         THEN [st EXCEPT !.current = st.current \o <<Space>> \o word]
    ELSE [lines |-> Append(st.lines, st.current), current |-> word]

RECURSIVE sw_loop(_, _, _)
sw_loop(st, words, w) ==
    IF words = <<>> THEN st ELSE sw_loop(sw_step(st, Head(words), w), Tail(words), w)

\* Mutant: no empty line is added when the loop produced none.
simple_wrap_may_be_empty(t, w) ==
    IF w = 0 \/ t = <<>> THEN <<t>>
    ELSE LET st == sw_loop([lines |-> <<>>, current |-> <<>>], split_whitespace(t), w)
         IN  IF st.current # <<>> THEN Append(st.lines, st.current) ELSE st.lines

\* simple_wrap
simple_wrap(t, w) ==
    IF w = 0 \/ t = <<>> THEN <<t>>
    ELSE LET st == sw_loop([lines |-> <<>>, current |-> <<>>], split_whitespace(t), w)
             lines == IF st.current # <<>> THEN Append(st.lines, st.current)
                      ELSE st.lines
         IN  IF lines = <<>> THEN << <<>> >> ELSE lines

\* Texts wrapped by simple_wrap and the widths tried.
MaxSwLen == 8
MaxWidth == 4
SwChars == {LetterA, Space, Tab, WideChar}

SwInit ==
    /\ WriterInit
    /\ DriverIdle
    /\ TableIdle
    /\ fn = "none"
    /\ text \in StringsUpTo(SwChars, MaxSwLen)
    /\ width \in 0..MaxWidth
    /\ first_prefix = <<>>
    /\ next_prefix = <<>>
    /\ result = <<>>
    /\ tw_words = <<>>
    /\ tw = tw_start
    /\ level = 0
    /\ margin = <<>>

\* A call of simple_wrap(text, width).
call_simple_wrap ==
    /\ fn = "none"
    /\ fn' = "simple_wrap"
    /\ result' = simple_wrap(text, width)
    /\ UNCHANGED <<text, width, first_prefix, next_prefix, tw_words, tw, level, margin, wvars, dvars, bvars>>

SwNext == call_simple_wrap

SwSpec == SwInit /\ [][SwNext]_vars

----------------------------------------------------------------------------
(* Properties of simple_wrap *)

InSeq(x, s) == \E i \in 1..Len(s) : s[i] = x

NoWhitespace(s) == \A i \in 1..Len(s) : ~is_whitespace(s[i])

\* C16: with a width above 0 every line has at most `width` characters,
\* unless it is one word of the text, longer than the width, alone and
\* whole on its line.
C16_SimpleWrapWithinWidth ==
    (fn = "simple_wrap" /\ width > 0) =>
        \A i \in 1..Len(result) :
            \/ Len(result[i]) <= width
            \/ /\ NoWhitespace(result[i])
               /\ InSeq(result[i], split_whitespace(text))

\* C16 witness: a word longer than the width on its own line, followed by
\* a line that holds two words and fills the width.
C16_Witness ==
    /\ fn = "simple_wrap"
    /\ width = 3
    /\ Len(result) = 2
    /\ Len(result[1]) = 4 /\ NoWhitespace(result[1])
    /\ Len(result[2]) = 3 /\ ~NoWhitespace(result[2])

\* C17: simple_wrap returns at least one line; with width 0 or an empty
\* text it returns the text itself as its only line.
C17_SimpleWrapNeverEmpty ==
    fn = "simple_wrap" =>
        /\ Len(result) >= 1
        /\ (width = 0 \/ text = <<>>) => result = <<text>>

\* C17 witness: a text of whitespace only, wrapped with a width above 0,
\* gives one empty line.
C17_Witness ==
    /\ fn = "simple_wrap"
    /\ width > 0
    /\ text = <<Space, Tab>>
    /\ result = << <<>> >>

----------------------------------------------------------------------------
(* split_text and text_wrap *)

Greater == 62

\* Mutant: whitespace ends a word inside an escape sequence as well.
st_step_splits_in_escape(st, ch) ==
    IF st.in_escape /\ ~is_whitespace(ch) THEN
        IF ch = LowerM
        THEN [st EXCEPT !.current = st.current \o Append(st.escape_buf, ch),
                        !.escape_buf = <<>>,
                        !.in_escape = FALSE]
        ELSE [st EXCEPT !.escape_buf = Append(st.escape_buf, ch)]
    ELSE IF ch = ESC
    THEN [st EXCEPT !.in_escape = TRUE, !.escape_buf = Append(st.escape_buf, ch)]
    ELSE IF is_whitespace(ch)
    THEN IF st.current \o st.escape_buf # <<>>
         THEN [st EXCEPT !.words = Append(st.words, st.current \o st.escape_buf),
                         !.current = <<>>, !.escape_buf = <<>>, !.in_escape = FALSE]
         ELSE st
    ELSE [st EXCEPT !.current = Append(st.current, ch)]

\* One iteration of the loop of split_text on a character.
st_step(st, ch) ==
    IF st.in_escape THEN
        IF ch = LowerM
        THEN [st EXCEPT !.current = st.current \o Append(st.escape_buf, ch),
                        !.escape_buf = <<>>,
                        !.in_escape = FALSE]
        ELSE [st EXCEPT !.escape_buf = Append(st.escape_buf, ch)]
    ELSE IF ch = ESC
    THEN [st EXCEPT !.in_escape = TRUE, !.escape_buf = Append(st.escape_buf, ch)]
    ELSE IF is_whitespace(ch)
    THEN IF st.current # <<>>
         THEN [st EXCEPT !.words = Append(st.words, st.current), !.current = <<>>]
         ELSE st
    ELSE [st EXCEPT !.current = Append(st.current, ch)]

RECURSIVE st_loop(_, _)
st_loop(st, s) == IF s = <<>> THEN st ELSE st_loop(st_step(st, Head(s)), Tail(s))

\* Mutant: an escape still open at the end of the text is left out.
split_text_drops_open_escape(t) ==
    LET st == st_loop([words |-> <<>>, current |-> <<>>, in_escape |-> FALSE,
                       escape_buf |-> <<>>], t)
    IN  IF st.current # <<>> THEN Append(st.words, st.current) ELSE st.words

\* split_text
split_text(t) ==
    LET st == st_loop([words |-> <<>>, current |-> <<>>, in_escape |-> FALSE,
                       escape_buf |-> <<>>], t)
        current == IF st.escape_buf # <<>> THEN st.current \o st.escape_buf
                   ELSE st.current
    IN  IF current # <<>> THEN Append(st.words, current) ELSE st.words

\* usize::saturating_sub
saturating_sub(a, b) == IF a >= b THEN a - b ELSE 0

\* Mutant: a word that does not fit on an empty line is left out.
tw_step_skips_oversize(st, word, w, fp, np) ==
    LET word_len == visible_length(word)
        prefix_len == IF st.is_first_line THEN visible_length(fp)
                      ELSE visible_length(np)
        available == saturating_sub(w, prefix_len)
        space_needed == IF st.current_line = <<>> THEN 0 ELSE 1
    IN  IF st.current_len + word_len + space_needed <= available
        THEN IF st.current_line # <<>>
             THEN [st EXCEPT !.current_line = st.current_line \o <<Space>> \o word,
                             !.current_len = st.current_len + 1 + word_len]
             ELSE [st EXCEPT !.current_line = word,
                             !.current_len = st.current_len + word_len]
        ELSE IF st.current_line # <<>>
             THEN [lines |-> Append(st.lines,
                               (IF st.is_first_line THEN fp ELSE np) \o st.current_line),
                   is_first_line |-> FALSE,
                   current_line |-> word,
                   current_len |-> word_len]
             ELSE st

\* Mutant: a finalized line does not end the first line.
tw_step_stays_first(st, word, w, fp, np) ==
    LET word_len == visible_length(word)
        prefix_len == IF st.is_first_line THEN visible_length(fp)
                      ELSE visible_length(np)
        available == saturating_sub(w, prefix_len)
        space_needed == IF st.current_line = <<>> THEN 0 ELSE 1
    IN  IF st.current_len + word_len + space_needed <= available
        THEN IF st.current_line # <<>>
             THEN [st EXCEPT !.current_line = st.current_line \o <<Space>> \o word,
                             !.current_len = st.current_len + 1 + word_len]
             ELSE [st EXCEPT !.current_line = word,
                             !.current_len = st.current_len + word_len]
        ELSE IF st.current_line # <<>>
             THEN [lines |-> Append(st.lines,
                               (IF st.is_first_line THEN fp ELSE np) \o st.current_line),
                   is_first_line |-> st.is_first_line,
                   current_line |-> word,
                   current_len |-> word_len]
             ELSE [st EXCEPT !.current_line = word, !.current_len = word_len]

\* Mutant: the room of a line is the whole width, prefix not deducted.
tw_step_ignores_prefix(st, word, w, fp, np) ==
    LET word_len == visible_length(word)
        available == w
        space_needed == IF st.current_line = <<>> THEN 0 ELSE 1
    IN  IF st.current_len + word_len + space_needed <= available
        THEN IF st.current_line # <<>>
             THEN [st EXCEPT !.current_line = st.current_line \o <<Space>> \o word,
                             !.current_len = st.current_len + 1 + word_len]
             ELSE [st EXCEPT !.current_line = word,
                             !.current_len = st.current_len + word_len]
        ELSE IF st.current_line # <<>>
             THEN [lines |-> Append(st.lines,
                               (IF st.is_first_line THEN fp ELSE np) \o st.current_line),
                   is_first_line |-> FALSE,
                   current_line |-> word,
                   current_len |-> word_len]
             ELSE [st EXCEPT !.current_line = word, !.current_len = word_len]

\* One iteration of the loop of text_wrap on a word.
tw_step(st, word, w, fp, np) ==
    LET word_len == visible_length(word)
        prefix_len == IF st.is_first_line THEN visible_length(fp)
                      ELSE visible_length(np)
        available == saturating_sub(w, prefix_len)
        space_needed == IF st.current_line = <<>> THEN 0 ELSE 1
    IN  IF st.current_len + word_len + space_needed <= available
        THEN IF st.current_line # <<>>
             THEN [st EXCEPT !.current_line = st.current_line \o <<Space>> \o word,
                             !.current_len = st.current_len + 1 + word_len]
             ELSE [st EXCEPT !.current_line = word,
                             !.current_len = st.current_len + word_len]
        ELSE IF st.current_line # <<>>
             THEN [lines |-> Append(st.lines,
                               (IF st.is_first_line THEN fp ELSE np) \o st.current_line),
                   is_first_line |-> FALSE,
                   current_line |-> word,
                   current_len |-> word_len]
             ELSE [st EXCEPT !.current_line = word, !.current_len = word_len]

RECURSIVE tw_loop(_, _, _, _, _)
tw_loop(st, words, w, fp, np) ==
    IF words = <<>> THEN st
    ELSE tw_loop(tw_step(st, Head(words), w, fp, np), Tail(words), w, fp, np)

\* The lines after the loop: the last line is added if it is not empty.
tw_finish(st, fp, np) ==
    IF st.current_line # <<>>
    THEN Append(st.lines, (IF st.is_first_line THEN fp ELSE np) \o st.current_line)
    ELSE st.lines

\* Mutant: width 0 is wrapped like any other width.
text_wrap_wraps_zero_width(t, w, fp, np) ==
    LET words == split_text(t) IN
    IF words = <<>> THEN <<>>
    ELSE tw_finish(tw_loop(tw_start, words, w, fp, np), fp, np)

\* text_wrap (the lines of the WrappedText it returns)
text_wrap(t, w, fp, np) ==
    IF w = 0 THEN <<>>
    ELSE LET words == split_text(t) IN
         IF words = <<>> THEN <<>>
         ELSE tw_finish(tw_loop(tw_start, words, w, fp, np), fp, np)

\* Texts wrapped by text_wrap, and the prefixes of the first and of the
\* following lines: none, a mark and its indentation, a styled mark, a
\* prefix that ends in an ESC without a follower.
MaxTwLen == 5
TwChars == {LetterA, Space, ESC, LBracket, LowerM, UpperK}
PrefixPairs ==
    { << <<>>, <<>> >>,
      << <<Greater, Space>>, <<Space, Space>> >>,
      << <<ESC, LBracket, LowerM, Greater>>, <<Space>> >>,
      << <<ESC>>, <<Greater>> >> }

TwInit ==
    /\ WriterInit
    /\ DriverIdle
    /\ TableIdle
    /\ fn = "none"
    /\ text \in StringsUpTo(TwChars, MaxTwLen)
    /\ width \in 0..MaxWidth
    /\ \E p \in PrefixPairs : first_prefix = p[1] /\ next_prefix = p[2]
    /\ result = <<>>
    /\ tw_words = <<>>
    /\ tw = tw_start
    /\ level = 0
    /\ margin = <<>>

\* A call of text_wrap(text, width, first_prefix, next_prefix).
call_text_wrap ==
    /\ fn = "none"
    /\ fn' = "text_wrap"
    /\ result' = text_wrap(text, width, first_prefix, next_prefix)
    /\ UNCHANGED <<text, width, first_prefix, next_prefix, tw_words, tw, level, margin, wvars, dvars, bvars>>

TwNext == call_text_wrap

TwSpec == TwInit /\ [][TwNext]_vars

----------------------------------------------------------------------------
(* Properties of text_wrap *)

\* The CSI sequences of s in order: scanning from the left, each ESC [ up
\* to the first of m K H J after it.
RECURSIVE CsiSeqs(_)
CsiSeqs(s) ==
    IF s = <<>> THEN <<>>
    ELSE IF Len(s) >= 2 /\ s[1] = ESC /\ s[2] = LBracket /\ CsiEnd(s) # 0
         THEN << SubSeq(s, 1, CsiEnd(s)) >> \o CsiSeqs(SubSeq(s, CsiEnd(s) + 1, Len(s)))
    ELSE CsiSeqs(Tail(s))

\* Line i of the result without the prefix text_wrap put before it.
Body(i) ==
    LET p == IF i = 1 THEN first_prefix ELSE next_prefix
    IN  SubSeq(result[i], Len(p) + 1, Len(result[i]))

HasPrefix(i) ==
    LET p == IF i = 1 THEN first_prefix ELSE next_prefix
    IN  IsPrefix(p, result[i])

\* The CSI sequences found in the lines of the result, line by line.
CsiSeqsOfLines == Flatten([i \in 1..Len(result) |-> CsiSeqs(Body(i))])

\* C18 (as stated): for every text, width and prefixes, the CSI sequences
\* of the text are, one for one and in order, the CSI sequences found
\* whole inside the output lines.
C18_CsiIntactAnyWidth ==
    fn = "text_wrap" => CsiSeqsOfLines = CsiSeqs(text)

\* C18 (amended): for every text, every width above 0 and all prefixes,
\* the CSI sequences of the text are, one for one and in order, the CSI
\* sequences found whole inside the output lines; none is split across
\* two lines.
C18_CsiIntact ==
    (fn = "text_wrap" /\ width > 0) => CsiSeqsOfLines = CsiSeqs(text)

\* C18 witness: a text with a word and a CSI sequence, wrapped into two
\* prefixed lines, the second of which holds the CSI sequence whole.
C18_Witness ==
    /\ fn = "text_wrap"
    /\ width = 1
    /\ first_prefix = <<Greater, Space>>
    /\ text = <<LetterA, Space, ESC, LBracket, UpperK>>
    /\ Len(result) = 2
    /\ CsiSeqs(Body(1)) = <<>>
    /\ CsiSeqs(Body(2)) = << <<ESC, LBracket, UpperK>> >>

\* The words joined by single spaces.
RECURSIVE Join(_)
Join(ws) ==
    IF ws = <<>> THEN <<>>
    ELSE IF Len(ws) = 1 THEN ws[1]
    ELSE ws[1] \o <<Space>> \o Join(Tail(ws))

\* The lines ls are the words ws, taken in order in consecutive non-empty
\* groups, each group joined by single spaces.
RECURSIVE Regroups(_, _)
Regroups(ls, ws) ==
    IF ls = <<>> THEN ws = <<>>
    ELSE \E k \in 1..Len(ws) :
            /\ Join(SubSeq(ws, 1, k)) = Head(ls)
            /\ Regroups(Tail(ls), SubSeq(ws, k + 1, Len(ws)))

Bodies == [i \in 1..Len(result) |-> Body(i)]

\* C19: for a width above 0, every output line starts with its prefix,
\* and the lines without their prefixes are the words of the text (as
\* split_text finds them), in order, in groups joined by single spaces:
\* no word is dropped, duplicated or altered.  Read as whitespace-separated
\* words, the lines give the whitespace-separated words of the text.
C19_WordsPreserved ==
    (fn = "text_wrap" /\ width > 0) =>
        /\ \A i \in 1..Len(result) : HasPrefix(i)
        /\ Regroups(Bodies, split_text(text))
        /\ Flatten([i \in 1..Len(result) |-> split_whitespace(Body(i))])
              = split_whitespace(text)

\* C19 witness: two words separated by two spaces, the first wider than
\* the room the prefix leaves, wrapped into two prefixed lines.
C19_Witness ==
    /\ fn = "text_wrap"
    /\ width = 3
    /\ first_prefix = <<Greater, Space>>
    /\ text = <<LetterA, LetterA, Space, Space, LetterA>>
    /\ result = << <<Greater, Space, LetterA, LetterA>>,
                   <<Space, Space, LetterA>> >>

\* C20: text_wrap returns no lines when the width is 0, and when the text
\* is empty or whitespace only; no line holding only a prefix is returned.
C20_NoLines ==
    (fn = "text_wrap" /\ (width = 0 \/ \A i \in 1..Len(text) : is_whitespace(text[i])))
        => result = <<>>

\* C20 witness: a text with a word, wrapped with width 0 and a prefix,
\* gives no lines.
C20_Witness ==
    /\ fn = "text_wrap"
    /\ width = 0
    /\ text = <<LetterA, Space, LetterA>>
    /\ first_prefix = <<Greater, Space>>
    /\ result = <<>>

\* C20 witness, second case: a whitespace-only text wrapped with a width
\* above 0 and a prefix gives no lines.
C20_WitnessBlank ==
    /\ fn = "text_wrap"
    /\ width > 0
    /\ text = <<Space, Space>>
    /\ first_prefix = <<Greater, Space>>
    /\ result = <<>>

\* The prefix text_wrap puts before line i, and the room it leaves.
PrefixOf(i) == IF i = 1 THEN first_prefix ELSE next_prefix

Available(i) == saturating_sub(width, visible_length(PrefixOf(i)))

\* Line i holds a single token of the text.
SingleToken(i) == split_text(Body(i)) = <<Body(i)>> /\ InSeq(Body(i), split_text(text))

\* C24 (as stated): for a width above 0, each line has a visible length of
\* at most the width, unless it holds a single token whose visible length
\* exceeds the room left after the prefix.
C24_LinesWithinWidth ==
    (fn = "text_wrap" /\ width > 0) =>
        \A i \in 1..Len(result) :
            \/ visible_length(result[i]) <= width
            \/ SingleToken(i) /\ visible_length(Body(i)) > Available(i)

\* A string that ends in an ESC still waiting for its follower.
PendingEsc(s) == vl_scan(vl_start, s).prev_was_esc

\* C24 (amended): for a width above 0, each line whose prefix does not end
\* in an ESC without a follower has a visible length of at most the width,
\* unless it holds a single token and either the token's visible length
\* exceeds the room left after the prefix or the prefix alone is wider
\* than the width.
C24_LinesWithinWidthOrPrefix ==
    (fn = "text_wrap" /\ width > 0) =>
        \A i \in 1..Len(result) :
            \/ PendingEsc(PrefixOf(i))
            \/ visible_length(result[i]) <= width
            \/ /\ SingleToken(i)
               /\ \/ visible_length(Body(i)) > Available(i)
                  \/ visible_length(PrefixOf(i)) > width

\* C24 witness: a first line wider than the width that holds one token
\* too wide for the room its prefix leaves, and a second line within the
\* width.
C24_Witness ==
    /\ fn = "text_wrap"
    /\ width = 4
    /\ first_prefix = <<Greater, Space>>
    /\ text = <<LetterA, LetterA, LetterA, Space, LetterA>>
    /\ Len(result) = 2
    /\ visible_length(result[1]) = 5
    /\ visible_length(result[2]) = 3

\* C25: the first line starts with first_prefix followed by the first
\* word of the text, also when that word is too wide for the line; every
\* later line starts with next_prefix.
C25_PrefixPerLine ==
    (fn = "text_wrap" /\ result # <<>>) =>
        /\ IsPrefix(first_prefix \o split_text(text)[1], result[1])
        /\ \A i \in 2..Len(result) : IsPrefix(next_prefix, result[i])

\* C25 witness: the first word is wider than the first line; it is on a
\* line with first_prefix, and the next word on a line with next_prefix.
C25_Witness ==
    /\ fn = "text_wrap"
    /\ width = 3
    /\ first_prefix = <<Greater, Space>>
    /\ next_prefix = <<Space, Space>>
    /\ text = <<LetterA, LetterA, LetterA, Space, LetterA>>
    /\ result = << <<Greater, Space, LetterA, LetterA, LetterA>>,
                   <<Space, Space, LetterA>> >>

----------------------------------------------------------------------------
(* text_wrap, one loop iteration at a time *)

\* Texts with OSC introducers and terminators.
MaxLoopLen == 5
TwLoopChars == {LetterA, Space, ESC, RBracket, LowerM, Backslash}

TwLoopInit ==
    /\ WriterInit
    /\ DriverIdle
    /\ TableIdle
    /\ fn = "none"
    /\ text \in StringsUpTo(TwLoopChars, MaxLoopLen)
    /\ width \in 0..MaxWidth
    /\ \E p \in PrefixPairs : first_prefix = p[1] /\ next_prefix = p[2]
    /\ result = <<>>
    /\ tw_words = <<>>
    /\ tw = tw_start
    /\ level = 0
    /\ margin = <<>>

\* text_wrap up to its loop: the two early returns, or the words and the
\* initial locals.
tw_enter ==
    /\ fn = "none"
    /\ IF width = 0 \/ split_text(text) = <<>>
       THEN /\ fn' = "text_wrap"
            /\ result' = <<>>
            /\ UNCHANGED <<tw_words, tw>>
       ELSE /\ fn' = "text_wrap_loop"
            /\ tw_words' = split_text(text)
            /\ tw' = tw_start
            /\ UNCHANGED result
    /\ UNCHANGED <<text, width, first_prefix, next_prefix, level, margin, wvars, dvars, bvars>>

\* One iteration of `for word in &words`.
tw_iterate ==
    /\ fn = "text_wrap_loop"
    /\ tw_words # <<>>
    /\ tw' = tw_step(tw, Head(tw_words), width, first_prefix, next_prefix)
    /\ tw_words' = Tail(tw_words)
    /\ UNCHANGED <<fn, text, width, first_prefix, next_prefix, result, level, margin, wvars, dvars, bvars>>

\* After the loop: the last line, and the return.
tw_return ==
    /\ fn = "text_wrap_loop"
    /\ tw_words = <<>>
    /\ fn' = "text_wrap"
    /\ result' = tw_finish(tw, first_prefix, next_prefix)
    /\ UNCHANGED <<text, width, first_prefix, next_prefix, tw_words, tw, level, margin, wvars, dvars, bvars>>

TwLoopNext == tw_enter \/ tw_iterate \/ tw_return

TwLoopSpec == TwLoopInit /\ [][TwLoopNext]_vars

\* C26 (as stated): at every iteration of text_wrap the tracked length of
\* the current line is the visible_length of the current line's text.
C26_TrackedLengthExact ==
    fn = "text_wrap_loop" => tw.current_len = visible_length(tw.current_line)

\* The result of the loop is the result of the whole function.
LoopAgrees ==
    fn = "text_wrap" => result = text_wrap(text, width, first_prefix, next_prefix)

----------------------------------------------------------------------------
(* The fallback of visible_length *)

\* The scanner of visible_length after the first n characters of the text.
ScanTo(n) == vl_scan(vl_start, SubSeq(text, 1, n))

\* Position i holds an ESC that the scanner takes as an ESC, followed by a
\* character that is not a recognized introducer.
FallbackAt(i) ==
    /\ i + 1 <= Len(text)
    /\ text[i] = ESC
    /\ ~ScanTo(i - 1).prev_was_esc
    /\ text[i + 1] \notin {LBracket, RBracket}
    /\ ~(text[i + 1] = Backslash /\ ScanTo(i - 1).in_osc)

\* The text without the characters at positions i and i + 1.
WithoutPair(i) == SubSeq(text, 1, i - 1) \o SubSeq(text, i + 2, Len(text))

\* C27: an ESC followed by a character that is not a recognized introducer
\* adds nothing itself, its follower adds exactly its display width, and
\* the CSI/OSC state of the scanner is as before the ESC; the length of
\* the whole string is that of the string without the two characters plus
\* the follower's width.
C27_FallbackCountsFollower ==
    fn = "visible_length" =>
        \A i \in 1..Len(text) :
            FallbackAt(i) =>
                /\ ScanTo(i).len = ScanTo(i - 1).len
                /\ ScanTo(i + 1).len = ScanTo(i - 1).len + DisplayWidth(text[i + 1])
                /\ ScanTo(i + 1).in_csi = ScanTo(i - 1).in_csi
                /\ ScanTo(i + 1).in_osc = ScanTo(i - 1).in_osc
                /\ ~ScanTo(i + 1).prev_was_esc
                /\ result = visible_length(WithoutPair(i)) + DisplayWidth(text[i + 1])

\* C27 witness: inside a CSI sequence an ESC is followed by a wide
\* character, which is counted, and the sequence then ends at its m.
C27_Witness ==
    /\ fn = "visible_length"
    /\ text = <<ESC, LBracket, ESC, WideChar, LowerM>>
    /\ FallbackAt(3)
    /\ ScanTo(4).in_csi
    /\ result = 2

----------------------------------------------------------------------------
(* split_text on its own *)

MaxStLen == 6
StChars == {LetterA, Space, Tab, ESC, LBracket, LowerM}

StInit ==
    /\ WriterInit
    /\ DriverIdle
    /\ TableIdle
    /\ fn = "none"
    /\ text \in StringsUpTo(StChars, MaxStLen)
    /\ width = 0
    /\ first_prefix = <<>>
    /\ next_prefix = <<>>
    /\ result = <<>>
    /\ tw_words = <<>>
    /\ tw = tw_start
    /\ level = 0
    /\ margin = <<>>

\* A call of split_text(text).
call_split_text ==
    /\ fn = "none"
    /\ fn' = "split_text"
    /\ result' = split_text(text)
    /\ UNCHANGED <<text, width, first_prefix, next_prefix, tw_words, tw, level, margin, wvars, dvars, bvars>>

StNext == call_split_text

StSpec == StInit /\ [][StNext]_vars

\* The position of the first m of s after its first character, 0 if none.
FirstM(s) ==
    LET js == {j \in 2..Len(s) : s[j] = LowerM} IN
    IF js = {} THEN 0 ELSE CHOOSE j \in js : \A k \in js : j <= k

\* s without the whitespace outside escape sequences; an escape sequence
\* runs from an ESC to the next m, or to the end of s when no m follows.
RECURSIVE WithoutOuterWhitespace(_)
WithoutOuterWhitespace(s) ==
    IF s = <<>> THEN <<>>
    ELSE IF Head(s) = ESC THEN
         IF FirstM(s) = 0 THEN s
         ELSE SubSeq(s, 1, FirstM(s))
              \o WithoutOuterWhitespace(SubSeq(s, FirstM(s) + 1, Len(s)))
    ELSE IF is_whitespace(Head(s)) THEN WithoutOuterWhitespace(Tail(s))
    ELSE <<Head(s)>> \o WithoutOuterWhitespace(Tail(s))

\* The escape sequence still open at the end of s (empty if none).
RECURSIVE OpenEscape(_)
OpenEscape(s) ==
    IF s = <<>> THEN <<>>
    ELSE IF Head(s) = ESC THEN
         IF FirstM(s) = 0 THEN s
         ELSE OpenEscape(SubSeq(s, FirstM(s) + 1, Len(s)))
    ELSE OpenEscape(Tail(s))

IsSuffix(s, t) == Len(s) <= Len(t) /\ s = SubSeq(t, Len(t) - Len(s) + 1, Len(t))

\* C28: split_text returns no empty token; its tokens concatenated are the
\* text without the whitespace outside escape sequences; an escape still
\* open at the end of the text ends the last token.
C28_SplitTextKeepsCharacters ==
    fn = "split_text" =>
        /\ \A i \in 1..Len(result) : result[i] # <<>>
        /\ Flatten(result) = WithoutOuterWhitespace(text)
        /\ OpenEscape(text) # <<>> =>
              result # <<>> /\ IsSuffix(OpenEscape(text), result[Len(result)])

\* C28 witness: two words, the second followed by an escape that is still
\* open at the end of the text and holds a space.
C28_Witness ==
    /\ fn = "split_text"
    /\ text = <<LetterA, Tab, LetterA, ESC, LBracket, Space>>
    /\ result = << <<LetterA>>, <<LetterA, ESC, LBracket, Space>> >>

----------------------------------------------------------------------------
(* The table renderer of the demo program *)

EAcute == 233

\* str::len: the number of bytes of the UTF-8 form.
RECURSIVE byte_len(_)
byte_len(s) == IF s = <<>> THEN 0 ELSE Len(encode_utf8(Head(s))) + byte_len(Tail(s))

\* The lengths of one row merged into the widths computed so far.
RECURSIVE widths_of_row(_, _, _)
widths_of_row(ws, row, i) ==
    IF i > Len(row) THEN ws
    ELSE IF i > Len(ws)
         THEN widths_of_row(Append(ws, byte_len(row[i])), row, i + 1)
    ELSE widths_of_row([ws EXCEPT ![i] = IF ws[i] >= byte_len(row[i]) THEN ws[i]
                                         ELSE byte_len(row[i])], row, i + 1)

\* flush_table: the column widths of the rows.
RECURSIVE column_widths(_, _)
column_widths(ws, rows) ==
    IF rows = <<>> THEN ws
    ELSE column_widths(widths_of_row(ws, Head(rows), 1), Tail(rows))

\* A border line: for each column the number of horizontal glyphs.
Border(kind, ws) == [kind |-> kind, segs |-> [j \in 1..Len(ws) |-> ws[j] + 2]]

\* The line of a row: each cell with the width it is centred in.
RowLine(row, is_header, ws) ==
    [kind |-> "row", header |-> is_header,
     cells |-> [i \in 1..Len(row) |-> [text |-> row[i], w |-> ws[i]]]]

\* The lines written for rows idx.. of the table.
RECURSIVE row_lines(_, _, _)
row_lines(rows, idx, ws) ==
    IF idx > Len(rows) THEN <<>>
    ELSE <<RowLine(rows[idx], idx = 1, ws)>>
         \o (IF idx = 1 /\ Len(rows) > 1 THEN <<Border("sep", ws)>> ELSE <<>>)
         \o row_lines(rows, idx + 1, ws)

\* Mutant: the bottom border is written before the rows.
flush_table_lines_closes_early(rows) ==
    LET ws == column_widths(<<>>, rows) IN
    <<Border("top", ws)>> \o <<Border("bottom", ws)>> \o row_lines(rows, 1, ws)

\* flush_table: the lines it writes for a table that is not empty, in the
\* order of its writeln! calls.
flush_table_lines(rows) ==
    LET ws == column_widths(<<>>, rows) IN
    <<Border("top", ws)>> \o row_lines(rows, 1, ws) \o <<Border("bottom", ws)>>

\* The cells of the tables, the columns of a row and the rows buffered.
MaxCols == 2
MaxRows == 3
Cells == { <<LetterA>>, <<EAcute, LetterA>> }
TableRows == UNION {[1..n -> Cells] : n \in 1..MaxCols}

\* `n` writes of `lines` in a row, each of which the writer may fail: the
\* lines written before the first failure, and the result.
WriteLines(lines, nok) ==
    /\ written' = SubSeq(lines, 1, nok)
    /\ ret' = IF nok = Len(lines) THEN "Ok" ELSE "Err"

\* Mutant: a row is written as soon as its event arrives.
render_table_row_at_once(kind, cols) ==
    /\ Len(table_rows) < MaxRows
    /\ table_rows' = Append(table_rows, cols)
    /\ last_event' = kind
    /\ \E nok \in 0..1 :
          WriteLines(<<RowLine(cols, kind = "TableHeader",
                               column_widths(<<>>, <<cols>>))>>, nok)
    /\ widths' = <<>>
    /\ taken' = <<>>
    /\ UNCHANGED <<wvars, dvars, tvars>>

\* render_event(TableHeader(cols)) and render_event(TableRow(cols)).
render_table_row(kind, cols) ==
    /\ Len(table_rows) < MaxRows
    /\ table_rows' = Append(table_rows, cols)
    /\ last_event' = kind
    /\ written' = <<>>
    /\ ret' = "Ok"
    /\ widths' = <<>>
    /\ taken' = <<>>
    /\ UNCHANGED <<wvars, dvars, tvars>>

\* render_event(TableSeparator)
render_table_separator ==
    /\ last_event' = "TableSeparator"
    /\ written' = <<>>
    /\ ret' = "Ok"
    /\ widths' = <<>>
    /\ taken' = <<>>
    /\ UNCHANGED <<table_rows, wvars, dvars, tvars>>

\* Mutant: the rows stay buffered after they are written.
render_table_end_keeps_rows ==
    /\ last_event' = "TableEnd"
    /\ IF table_rows = <<>>
       THEN /\ written' = <<>>
            /\ ret' = "Ok"
            /\ widths' = <<>>
            /\ taken' = <<>>
            /\ UNCHANGED table_rows
       ELSE /\ taken' = table_rows
            /\ UNCHANGED table_rows
            /\ widths' = column_widths(<<>>, table_rows)
            /\ \E nok \in 0..Len(flush_table_lines(table_rows)) :
                  WriteLines(flush_table_lines(table_rows), nok)
    /\ UNCHANGED <<wvars, dvars, tvars>>

\* render_event(TableEnd): flush_table.
render_table_end ==
    /\ last_event' = "TableEnd"
    /\ IF table_rows = <<>>
       THEN /\ written' = <<>>
            /\ ret' = "Ok"
            /\ widths' = <<>>
            /\ taken' = <<>>
            /\ UNCHANGED table_rows
       ELSE /\ taken' = table_rows
            /\ table_rows' = <<>>
            /\ widths' = column_widths(<<>>, table_rows)
            /\ \E nok \in 0..Len(flush_table_lines(table_rows)) :
                  WriteLines(flush_table_lines(table_rows), nok)
    /\ UNCHANGED <<wvars, dvars, tvars>>

\* render_event of an event that writes and is no table event (EmptyLine).
render_empty_line ==
    /\ last_event' = "EmptyLine"
    /\ \E nok \in 0..1 : WriteLines(<<[kind |-> "empty"]>>, nok)
    /\ widths' = <<>>
    /\ taken' = <<>>
    /\ UNCHANGED <<table_rows, wvars, dvars, tvars>>

TableNext ==
    \/ \E kind \in {"TableHeader", "TableRow"}, cols \in TableRows :
          render_table_row(kind, cols)
    \/ render_table_separator
    \/ render_table_end
    \/ render_empty_line

TableSpec == Init /\ [][TableNext]_vars

----------------------------------------------------------------------------
(* Properties of the table renderer *)

\* The last event was a table-end that found rows to flush.
Flushed == last_event = "TableEnd" /\ taken # <<>> /\ table_rows = <<>> /\ written # <<>>

\* The greatest visible length among the cells of column j of the rows.
RECURSIVE MaxVisible(_, _)
MaxVisible(rows, j) ==
    IF rows = <<>> THEN 0
    ELSE Max(IF j <= Len(Head(rows)) THEN visible_length(Head(rows)[j]) ELSE 0,
             MaxVisible(Tail(rows), j))

RECURSIVE MaxCells(_)
MaxCells(rows) == IF rows = <<>> THEN 0 ELSE Max(Len(Head(rows)), MaxCells(Tail(rows)))

\* C21 (as stated): when a table is flushed, there is one width for each
\* column, and it is the greatest visible length of the column's cells,
\* the header's included.
C21_WidthIsMaxVisibleLength ==
    (last_event = "TableEnd" /\ taken # <<>>) =>
        /\ Len(widths) = MaxCells(taken)
        /\ \A j \in 1..Len(widths) : widths[j] = MaxVisible(taken, j)

\* The segments of a border match the computed column widths.
MatchesWidths(line) ==
    /\ Len(line.segs) = Len(widths)
    /\ \A j \in 1..Len(widths) : line.segs[j] = widths[j] + 2

\* Line k of the output is row r of the flushed table.
IsRowLine(k, r) ==
    /\ written[k].kind = "row"
    /\ written[k].header = (r = 1)
    /\ [i \in 1..Len(written[k].cells) |-> written[k].cells[i].text] = taken[r]

\* The output is: top border, header row, separator (when `sep` is 1),
\* body rows in order, bottom border.
TableShape(sep) ==
    /\ Len(written) = Len(taken) + 2 + sep
    /\ written[1].kind = "top" /\ MatchesWidths(written[1])
    /\ IsRowLine(2, 1)
    /\ sep = 1 => written[3].kind = "sep" /\ MatchesWidths(written[3])
    /\ \A r \in 2..Len(taken) : IsRowLine(r + 1 + sep, r)
    /\ written[Len(written)].kind = "bottom" /\ MatchesWidths(written[Len(written)])

IsTableLine(line) == line.kind \in {"top", "row", "sep", "bottom"}

\* C29: a table header or row event writes nothing and appends its cells
\* to the row buffer; table lines are written only by a table-end event,
\* after which the row buffer is empty; a table-end event that finds the
\* row buffer empty writes nothing.
C29_TableBufferedUntilEnd ==
    [][ /\ last_event' \in {"TableHeader", "TableRow"} =>
              /\ written' = <<>>
              /\ Len(table_rows') = Len(table_rows) + 1
              /\ SubSeq(table_rows', 1, Len(table_rows)) = table_rows
        /\ (\E k \in 1..Len(written') : IsTableLine(written'[k])) =>
              last_event' = "TableEnd"
        /\ last_event' = "TableEnd" =>
              /\ table_rows' = <<>>
              /\ table_rows = <<>> => written' = <<>>
      ]_vars

\* C29 witness: a header and a row are buffered and nothing has been
\* written for them.
C29_Witness ==
    /\ last_event = "TableRow"
    /\ Len(table_rows) = 2
    /\ ret = "Ok"
    /\ written = <<>>

\* C29 witness, second case: a table-end event found no rows and wrote
\* nothing.
C29_WitnessEmpty ==
    /\ last_event = "TableEnd"
    /\ taken = <<>>
    /\ written = <<>>
    /\ ret = "Ok"

----------------------------------------------------------------------------
(* render_heading *)

\* theme.heading<level>.apply(&line): the line with the style of its level.
apply_heading_style(lv, line) == [style |-> lv, text |-> line]

\* Mutant: the padding is computed against twice the line's length.
heading_line_pads_styled(lv, line, w, m) ==
    LET line_len == Len(line)
        center_pad == saturating_sub(w, 2 * line_len) \div 2
    IN  IF lv \in {1, 2}
        THEN [margin_line |-> <<m>>, margin |-> m, pad |-> center_pad,
              styled |-> apply_heading_style(lv, line)]
        ELSE [margin_line |-> <<>>, margin |-> m, pad |-> 0,
              styled |-> apply_heading_style(IF lv \in 3..5 THEN lv ELSE 6, line)]

\* The string render_heading formats for one wrapped line, by its parts:
\* the margin lines before it ("{margin}\n"), the margin, the number of
\* spaces, the styled line.
heading_line(lv, line, w, m) ==
    LET line_len == Len(line)
        center_pad == saturating_sub(w, line_len) \div 2
    IN  IF lv \in {1, 2}
        THEN [margin_line |-> <<m>>, margin |-> m, pad |-> center_pad,
              styled |-> apply_heading_style(lv, line)]
        ELSE [margin_line |-> <<>>, margin |-> m, pad |-> 0,
              styled |-> apply_heading_style(IF lv \in 3..5 THEN lv ELSE 6, line)]

\* render_heading
render_heading(lv, content, w, m) ==
    LET lines == simple_wrap(content, w)
    IN  [i \in 1..Len(lines) |-> heading_line(lv, lines[i], w, m)]

\* The headings rendered: levels 1 to 6, with and without a margin.
MaxHdLen == 5
HdChars == {LetterA, Space, WideChar}
HeadingLevels == 1..6
Margins == { <<>>, <<Space, Space>> }

HdInit ==
    /\ WriterInit
    /\ DriverIdle
    /\ TableIdle
    /\ fn = "none"
    /\ text \in StringsUpTo(HdChars, MaxHdLen)
    /\ width \in 0..MaxWidth
    /\ level \in HeadingLevels
    /\ margin \in Margins
    /\ first_prefix = <<>>
    /\ next_prefix = <<>>
    /\ result = <<>>
    /\ tw_words = <<>>
    /\ tw = tw_start

\* A call of render_heading(level, text, width, margin, theme).
call_render_heading ==
    /\ fn = "none"
    /\ fn' = "render_heading"
    /\ result' = render_heading(level, text, width, margin)
    /\ UNCHANGED <<text, width, first_prefix, next_prefix, tw_words, tw, level, margin,
                   wvars, dvars, bvars>>

HdNext == call_render_heading

HdSpec == HdInit /\ [][HdNext]_vars

\* floor((w - n) / 2), and 0 when n >= w.
CenterPad(n, w) == IF n >= w THEN 0 ELSE (w - n) \div 2

\* C30: for levels 1 and 2 each wrapped line comes after a margin line and
\* is padded on the left with floor((width - n) / 2) spaces, n being the
\* number of characters of the unstyled line (no spaces when n >= width);
\* for levels 3 to 6 each line is the margin and the styled text, with no
\* margin line and no padding.
C30_HeadingPadding ==
    fn = "render_heading" =>
        /\ Len(result) = Len(simple_wrap(text, width))
        /\ \A i \in 1..Len(result) :
              /\ result[i].margin = margin
              /\ result[i].styled.text = simple_wrap(text, width)[i]
              /\ result[i].styled.style = level
              /\ level \in {1, 2} =>
                    /\ result[i].margin_line = <<margin>>
                    /\ result[i].pad = CenterPad(Len(result[i].styled.text), width)
              /\ level \in 3..6 =>
                    /\ result[i].margin_line = <<>>
                    /\ result[i].pad = 0

\* C30 witness: a level-2 heading wrapped into two lines of one and two
\* characters in a width of 4, padded with 1 and 1 spaces.
C30_Witness ==
    /\ fn = "render_heading"
    /\ level = 2
    /\ width = 4
    /\ margin = <<Space, Space>>
    /\ text = <<LetterA, LetterA, LetterA, Space, WideChar>>
    /\ Len(result) = 2
    /\ result[1].pad = 0
    /\ result[2].pad = 1
    /\ result[2].margin_line = << <<Space, Space>> >>

----------------------------------------------------------------------------
(* The first Shutdown entry *)

\* The consumer takes the entry at the head of the channel in this step.
TakesHead == cpc = "recv" /\ queue # <<>> /\ Len(queue') < Len(queue)

\* C31: when the consumer takes a Shutdown entry it flushes the sink and
\* its task ends in that step, writing nothing; once the task has ended
\* the sink is handed nothing more and no entry is received, so no
\* character of an entry that was queued behind the Shutdown is emitted.
C31_FirstShutdownEndsConsumer ==
    [][ /\ (TakesHead /\ Head(queue).type = "Shutdown")
              => /\ cpc' = "done"
                 /\ on_shutdown' # <<>>
                 /\ on_shutdown'[1].flushed
                 /\ out' = out
        /\ cpc = "done"
              => /\ cpc' = "done"
                 /\ out' = out
                 /\ nrecv' = nrecv
                 /\ cur' = cur
                 /\ queue' = <<>> ]_vars

\* The task has ended on a Shutdown that had another entry queued behind
\* it, after it had emitted the characters of an earlier write.
C31_Witness ==
    /\ cpc = "done"
    /\ on_shutdown # <<>>
    /\ on_shutdown[1].behind # <<>>
    /\ out # <<>>

----------------------------------------------------------------------------
(* The driver when rendering fails (src/src/lib.rs) *)

\* Number of push() calls of one behaviour with failures, and the most
\* render_event calls of one push() that succeed before one fails.
MaxErrPushes == 2
MaxOks == 1

\* Mutant: the buffer is cut before the events of the line are rendered.
RECURSIVE push_loop_err_cuts_first(_, _, _, _)
push_loop_err_cuts_first(buf, ps, rs, oks) ==
    LET pos == find_newline(buf) IN
    IF pos = 0 THEN [buf |-> buf, parsed |-> ps, rendered |-> rs, ret |-> "Ok"]
    ELSE LET line == SubSeq(buf, 1, pos - 1)
             events == parse_line(Len(ps) + 1, line)
         IN  IF Len(events) > oks
               THEN [buf |-> SubSeq(buf, pos + 1, Len(buf)),
                     parsed |-> Append(ps, line),
                     rendered |-> render_events(rs, SubSeq(events, 1, oks + 1)),
                     ret |-> "Err"]
               ELSE push_loop_err_cuts_first(SubSeq(buf, pos + 1, Len(buf)),
                                 Append(ps, line),
                                 render_events(rs, events),
                                 oks - Len(events))

\* The loop of push when render_event may return an error: `oks` calls of
\* render_event succeed and the next one fails.  The `?` returns from push
\* at the failing call, before the statement that cuts the line off the
\* buffer; the events of the line before the failing one have been
\* rendered, and the failing one has been handed to render_event.
RECURSIVE push_loop_err(_, _, _, _)
push_loop_err(buf, ps, rs, oks) ==
    LET pos == find_newline(buf) IN
    IF pos = 0 THEN [buf |-> buf, parsed |-> ps, rendered |-> rs, ret |-> "Ok"]
    ELSE LET line == SubSeq(buf, 1, pos - 1)
             events == parse_line(Len(ps) + 1, line)
         IN  IF Len(events) > oks
               THEN [buf |-> buf,
                     parsed |-> Append(ps, line),
                     rendered |-> render_events(rs, SubSeq(events, 1, oks + 1)),
                     ret |-> "Err"]
               ELSE push_loop_err(SubSeq(buf, pos + 1, Len(buf)),
                                  Append(ps, line),
                                  render_events(rs, events),
                                  oks - Len(events))

\* StreamdownRenderer::push with a renderer whose render_event may fail:
\* with `fails`, the call after `oks` successful ones returns an error.
push_err(token, fails, oks) ==
    /\ dpc = "open"
    /\ Len(fragments) < MaxErrPushes
    /\ LET buf == line_buffer \o token
           r == push_loop_err(buf, parsed, rendered,
                              IF fails THEN oks ELSE Len(buf))
       IN  /\ line_buffer' = r.buf
           /\ parsed' = r.parsed
           /\ rendered' = r.rendered
           /\ push_results' = Append(push_results, r.ret)
    /\ fragments' = Append(fragments, token)
    /\ UNCHANGED <<dpc, wvars, tvars, bvars>>

\* The driver with its writer and a renderer that may fail.
DriverErrNext ==
    \/ \E token \in Fragments, fails \in BOOLEAN, oks \in 0..MaxOks :
           push_err(token, fails, oks)
    \/ finish
    \/ ConsumerRecv
    \/ finish_join

DriverErrSpec == DriverInit /\ [][DriverErrNext]_vars

\* A push() call returns in this step.
PushReturned == Len(push_results') = Len(push_results) + 1

LastOf(s) == s[Len(s)]

\* C32: when push() returns an error from render_event, the line buffer
\* is what is left of the old buffer and the token after the complete
\* lines rendered before the failing one: it begins with the failing line,
\* the last one handed to the tokenizer, and holds everything after it.
\* The next push() then hands that same line to the tokenizer first.
C32_FailedPushKeepsLine ==
    [][ /\ (PushReturned /\ LastOf(push_results') = "Err")
              => LET full == line_buffer \o LastOf(fragments')
                     pos == find_newline(line_buffer')
                     k == Len(full) - Len(line_buffer')
                 IN  /\ IsSuffix(line_buffer', full)
                     /\ pos # 0
                     /\ LastOf(parsed') = SubSeq(line_buffer', 1, pos - 1)
                     /\ k = 0 \/ full[k] = NL
                     /\ Len(parsed') = Len(parsed) + 1
                            + Cardinality(NlPos(SubSeq(full, 1, k)))
        /\ (PushReturned /\ push_results # <<>> /\ LastOf(push_results) = "Err")
              => /\ Len(parsed') > Len(parsed)
                 /\ parsed'[Len(parsed) + 1] = LastOf(parsed) ]_vars

\* A push of "a\n" failed at its event, and the next push, of nothing new,
\* gave the line "a" to the tokenizer a second time and rendered it.
C32_Witness ==
    /\ push_results = <<"Err", "Ok">>
    /\ fragments = << <<97, NL>>, <<>> >>
    /\ parsed = << <<97>>, <<97>> >>
    /\ line_buffer = <<>>

\* Two pushes failed at the same line: the buffer holds the failing line
\* and the text pushed after it.
C32_WitnessTail ==
    /\ push_results = <<"Err", "Err">>
    /\ line_buffer = <<97, NL, 97, NL>>
    /\ parsed = << <<97>>, <<97>> >>

=============================================================================
